---------------------------- MODULE Spec2Model ----------------------------
(***************************************************************************)
(* A model of package iso8601 (src/pkg/iso8601/duration.go): the Duration  *)
(* value, its formatter (AppendFormat / String), its parser (ParseDuration *)
(* with leadingNegative, leadingInt, leadingFraction), NewDuration and     *)
(* TimeDuration with the overflow helpers addInt, multiplyInt, addNano.    *)
(*                                                                         *)
(* Go's int64 and uint64 are modelled at their full width.  The model      *)
(* checker's own integers are narrower than 64 bits, so a machine integer  *)
(* is held as a sign and a magnitude of four-digit limbs (least            *)
(* significant limb first) and the Go operators + - * / % and the          *)
(* conversions are defined on that representation, wrapping modulo 2^64    *)
(* where Go wraps.                                                         *)
(* Text is a sequence of one-character strings.                            *)
(***************************************************************************)
EXTENDS Integers, Sequences, FiniteSets, TLC

VARIABLES
    pc,           \* position of the operation in progress
    call,         \* the operation the client called first
    nanos,        \* NewDuration: the argument nanoseconds
    d,            \* the Duration that String / TimeDuration is called on
    text,         \* a text: the output of String, the input of ParseDuration (orig)
    s,            \* ParseDuration: the unconsumed rest of the input
    afterT,       \* ParseDuration: whether the time designator has been consumed
    ret,          \* ParseDuration: the Duration being built (named result ret)
    err,          \* the error result of ParseDuration / TimeDuration (NoErr = nil)
    nano          \* TimeDuration: the result

vars == <<pc, call, nanos, d, text, s, afterT, ret, err, nano>>

---------------------------------------------------------------------------
(* Magnitudes: natural numbers as sequences of limbs, each limb four        *)
(* decimal digits (a number below 10^4), least significant limb first,      *)
(* without most significant zero limbs; zero is << >>.                      *)

Max(S) == CHOOSE m \in S : \A k \in S : k <= m

\* 10^k for k in 0..4
SmallPow10(k) ==
    CASE k = 0 -> 1 [] k = 1 -> 10 [] k = 2 -> 100 [] k = 3 -> 1000 [] k = 4 -> 10000

\* limb i of a, zero beyond its length
Limb(a, i) == IF i >= 1 /\ i <= Len(a) THEN a[i] ELSE 0

MagNorm(a) ==
    LET nz == {i \in 1..Len(a) : a[i] # 0}
    IN  IF nz = {} THEN << >> ELSE SubSeq(a, 1, Max(nz))

\* a + b: the carry into limb i comes from a lower limb j whose sum is at
\* least 10^4, through limbs whose sum is exactly 10^4 - 1
MagAdd(a, b) ==
    LET n == IF Len(a) > Len(b) THEN Len(a) ELSE Len(b)
        sum(j) == Limb(a, j) + Limb(b, j)
        carry(i) == \E j \in 1..(i - 1) :
                        sum(j) >= 10000 /\ \A k \in (j + 1)..(i - 1) : sum(k) = 9999
    IN  MagNorm([i \in 1..(n + 1) |->
                    (sum(i) + IF carry(i) THEN 1 ELSE 0) % 10000])

\* a - b for a >= b: the borrow from limb i comes from a lower limb j with
\* a[j] < b[j], through limbs that are equal
MagSub(a, b) ==
    LET borrow(i) == \E j \in 1..(i - 1) :
                         Limb(a, j) < Limb(b, j)
                         /\ \A k \in (j + 1)..(i - 1) : Limb(a, k) = Limb(b, k)
    IN  MagNorm([i \in 1..Len(a) |->
                    (a[i] - Limb(b, i) - (IF borrow(i) THEN 1 ELSE 0) + 10000) % 10000])

MagLt(a, b) ==
    \/ Len(a) < Len(b)
    \/ /\ Len(a) = Len(b)
       /\ \E i \in 1..Len(a) :
              a[i] < b[i] /\ \A k \in (i + 1)..Len(a) : a[k] = b[k]

\* a * 10^(4k)
MagShift(a, k) ==
    IF a = << >> THEN << >> ELSE [i \in 1..k |-> 0] \o a

\* a * k for 0 <= k <= 10^4: the low and the high limb of each limb's product
MagMulSmall(a, k) ==
    MagAdd(MagNorm([i \in 1..Len(a) |-> (a[i] * k) % 10000]),
           MagShift(MagNorm([i \in 1..Len(a) |-> (a[i] * k) \div 10000]), 1))

\* a * 10^p
MagMulPow10(a, p) == MagShift(MagMulSmall(a, SmallPow10(p % 4)), p \div 4)

\* column i of the schoolbook product: the sum of a[i-j+1] * b[j]
RECURSIVE MagCol(_, _, _, _)
MagCol(a, b, i, j) ==
    IF j = 0 THEN 0 ELSE Limb(a, i - j + 1) * b[j] + MagCol(a, b, i, j - 1)

\* a * b for a and b of at most 20 limbs: every column sum is below 20 * 10^8;
\* its three limbs go to three numbers
MagMul(a, b) ==
    LET n == Len(a) + Len(b)
        col == [i \in 1..n |-> MagCol(a, b, i, Len(b))]
        p0 == MagNorm([i \in 1..n |-> col[i] % 10000])
        p1 == MagNorm([i \in 1..n |-> (col[i] \div 10000) % 10000])
        p2 == MagNorm([i \in 1..n |-> col[i] \div 100000000])
    IN  IF a = << >> \/ b = << >> THEN << >>
        ELSE MagAdd(MagAdd(p0, MagShift(p1, 1)), MagShift(p2, 2))

\* the number of decimal digits of a
NumDigits(a) ==
    IF a = << >> THEN 0
    ELSE 4 * (Len(a) - 1)
         + Cardinality({k \in 0..3 : a[Len(a)] >= SmallPow10(k)})

\* The long division by b # 0 takes one decimal position p at a time, with
\* unit = b * 10^p and a rest r below 10 * unit.  The digit of the quotient at
\* p is the number of times unit fits in r.  The three limbs of r and the two
\* limbs of unit at the top of unit bound it from both sides, within one of
\* each other; where the bounds differ, the product decides.
MagDivDigit(r, unit) ==
    LET n == Len(unit)
        top(a) == Limb(a, n + 1) * 100000000 + Limb(a, n) * 10000 + Limb(a, n - 1)
        hi == top(r) \div top(unit)
        lo == top(r) \div (top(unit) + 1)
    IN  IF hi = lo THEN lo
        ELSE IF MagLt(r, MagMulSmall(unit, hi)) THEN lo
        ELSE hi

\* the digit c goes to the quotient's limbs st.q and c * unit leaves the rest
MagDivTake(st, unit, c, p) ==
    IF c = 0 THEN st
    ELSE [q |-> [st.q EXCEPT ![p \div 4 + 1] = @ + c * SmallPow10(p % 4)],
          r |-> MagSub(st.r, MagMulSmall(unit, c))]

MagDivAt(st, unit, p) == MagDivTake(st, unit, MagDivDigit(st.r, unit), p)

MagDivStep(st, b, p) == MagDivAt(st, MagMulPow10(b, p), p)

\* the steps of the long division from position p down to the units; nothing
\* is left to divide once the rest is zero
RECURSIVE MagDivRun(_, _, _)
MagDivRun(st, b, p) ==
    IF p < 0 \/ st.r = << >> THEN st
    ELSE MagDivRun(MagDivStep(st, b, p), b, p - 1)

MagDivResult(st) == [q |-> MagNorm(st.q), r |-> st.r]

\* quotient and rest of a by b # 0, for a below 10^20 (a uint64 is): the
\* quotient has no digit above position NumDigits(a) - NumDigits(b)
MagDivMod(a, b) ==
    IF b = <<1>> THEN [q |-> a, r |-> << >>]
    ELSE MagDivResult(MagDivRun([q |-> <<0, 0, 0, 0, 0>>, r |-> a], b,
                                NumDigits(a) - NumDigits(b)))

\* a natural number n < 10^8 of the model checker's own integers
MagOfNat(n) == MagNorm(<<n % 10000, n \div 10000>>)

\* decimal digit i of a, counted from 1 at the units; zero beyond its length
Dg(a, i) == (Limb(a, (i - 1) \div 4 + 1) \div SmallPow10((i - 1) % 4)) % 10

\* a number written out in decimal digits, most significant digit first
MagLit(ds) ==
    LET n == Len(ds)
        dig(i) == IF i >= 1 /\ i <= n THEN ds[n + 1 - i] ELSE 0
    IN  MagNorm([e \in 1..((n + 3) \div 4) |->
                    dig(4 * e - 3) + 10 * dig(4 * e - 2)
                    + 100 * dig(4 * e - 1) + 1000 * dig(4 * e)])

---------------------------------------------------------------------------
(* Mathematical integers: a sign and a magnitude; zero is not negative.    *)

Z(neg, mag) == [neg |-> neg /\ mag # << >>, mag |-> mag]
FromInt(n) == IF n < 0 THEN Z(TRUE, MagOfNat(-n)) ELSE Z(FALSE, MagOfNat(n))
Zero == FromInt(0)
One == FromInt(1)
Ten == FromInt(10)

ZNeg(x) == Z(~x.neg, x.mag)
ZAdd(x, y) ==
    IF x.neg = y.neg THEN Z(x.neg, MagAdd(x.mag, y.mag))
    ELSE IF MagLt(x.mag, y.mag) THEN Z(y.neg, MagSub(y.mag, x.mag))
    ELSE Z(x.neg, MagSub(x.mag, y.mag))
ZSub(x, y) == ZAdd(x, ZNeg(y))
ZMul(x, y) == Z(x.neg # y.neg, MagMul(x.mag, y.mag))
\* Go's / and % on integers: the quotient truncates toward zero and the
\* remainder has the sign of the dividend
ZQuo(x, y) == Z(x.neg # y.neg, MagDivMod(x.mag, y.mag).q)
ZRem(x, y) == Z(x.neg, MagDivMod(x.mag, y.mag).r)
ZLt(x, y) ==
    IF x.neg # y.neg THEN x.neg
    ELSE IF x.neg THEN MagLt(y.mag, x.mag)
    ELSE MagLt(x.mag, y.mag)
ZGt(x, y) == ZLt(y, x)
ZLe(x, y) == ~ZLt(y, x)
ZIsZero(x) == x.mag = << >>

\* 10^n
Pow10(n) == Z(FALSE, MagMulPow10(<<1>>, n))

---------------------------------------------------------------------------
(* The int64 and uint64 types.                                             *)

\* 2^63 and 2^64
Two63 == Z(FALSE, MagLit(<<9,2,2,3,3,7,2,0,3,6,8,5,4,7,7,5,8,0,8>>))
Two64 == Z(FALSE, MagLit(<<1,8,4,4,6,7,4,4,0,7,3,7,0,9,5,5,1,6,1,6>>))

\* 1<<63 - 1
maxInt64 == Z(FALSE, MagLit(<<9,2,2,3,3,7,2,0,3,6,8,5,4,7,7,5,8,0,7>>))
minInt64 == ZNeg(Two63)

InInt64(x) == ZLe(minInt64, x) /\ ZLe(x, maxInt64)

\* the int64 holding x modulo 2^64, for x within 2^64 of the int64 range
Wrap64(x) ==
    IF ZGt(x, maxInt64) THEN ZSub(x, Two64)
    ELSE IF ZLt(x, minInt64) THEN ZAdd(x, Two64)
    ELSE x

Add64(x, y) == Wrap64(ZAdd(x, y))
Sub64(x, y) == Wrap64(ZSub(x, y))
Neg64(x) == Wrap64(ZNeg(x))
\* base * v where multiplyInt has checked that the product fits
Mul64(x, y) == Wrap64(ZMul(x, y))
\* x / -1 for the most negative x is x in Go; every other quotient fits
Quo64(x, y) == Wrap64(ZQuo(x, y))

\* uint64(x) of an int64 x, and the uint64 operators the formatter uses
ToUint64(x) == IF x.neg THEN ZAdd(x, Two64) ELSE x
NegU64(v) == IF ZIsZero(v) THEN v ELSE ZSub(Two64, v)
DecU64(v) == IF ZIsZero(v) THEN ZSub(Two64, One) ELSE ZSub(v, One)

---------------------------------------------------------------------------
(* The unit constants: package time's, then this package's.                *)

Nanosecond == One
Second == Pow10(9)
Minute == ZMul(FromInt(60), Second)
Hour == ZMul(FromInt(60), Minute)
Day == ZMul(Hour, FromInt(24))
Week == ZMul(Day, FromInt(7))
Month == ZMul(ZQuo(ZMul(ZQuo(Day, Ten), Z(FALSE, MagLit(<<1,4,6,0,9,7>>))), FromInt(4800)), Ten)
Year == ZMul(Month, FromInt(12))

---------------------------------------------------------------------------
(* Duration and the errors.                                                *)

Duration(y, mo, w, dd, h, mi, sec, ns, negative) ==
    [Years |-> y, Months |-> mo, Weeks |-> w, Days |-> dd, Hours |-> h,
     Minutes |-> mi, Seconds |-> sec, Nanoseconds |-> ns, Negative |-> negative]

\* the zero value Duration{}
ZeroDuration == Duration(Zero, Zero, Zero, Zero, Zero, Zero, Zero, Zero, FALSE)

\* an error value: nil, ErrOverflow, or an ErrInvalidDuration with its String
NoErr == [kind |-> "nil", String |-> << >>]
ErrOverflow == [kind |-> "ErrOverflow", String |-> << >>]
ErrInvalidDuration(orig) == [kind |-> "ErrInvalidDuration", String |-> orig]

---------------------------------------------------------------------------
(* TimeDuration and its overflow helpers.                                  *)

addInt(base, v) ==
    IF IF ZGt(base, Zero)
       THEN ZGt(v, Sub64(maxInt64, base)) \/ ZLt(v, Add64(minInt64, base))
       ELSE ZGt(v, Add64(maxInt64, base)) \/ ZLt(v, Sub64(minInt64, base))
    THEN [val |-> Zero, err |-> ErrOverflow]
    ELSE [val |-> Add64(base, v), err |-> NoErr]

\* every caller passes a unit constant as base, so base > 0; the other branch
\* (which divides by base, and base = 0 would panic) is never taken
multiplyInt(base, v) ==
    IF IF ZGt(base, Zero)
       THEN ZGt(v, Quo64(maxInt64, base)) \/ ZLt(v, Quo64(minInt64, base))
       ELSE ZGt(v, Quo64(minInt64, base)) \/ ZLt(v, Quo64(maxInt64, base))
    THEN [val |-> Zero, err |-> ErrOverflow]
    ELSE [val |-> Mul64(base, v), err |-> NoErr]

\* "if err != nil { return 0, err }; return addInt(base, v)" for the product v
addNanoSum(base, v) ==
    IF v.err # NoErr THEN [val |-> Zero, err |-> v.err] ELSE addInt(base, v.val)

addNano(base, num, unit) == addNanoSum(base, multiplyInt(unit, num))

\* the fields TimeDuration adds up, in its order, and their units
TimeFields ==
    <<"Years", "Months", "Weeks", "Days", "Hours", "Minutes", "Seconds",
      "Nanoseconds">>
TimeUnits == <<Year, Month, Week, Day, Hour, Minute, Second, Nanosecond>>

\* "nano, err = addNano(nano, d.<field>, <unit>); if err != nil { return }"
\* from field i on; acc is nano and err so far
RECURSIVE TimeDurationRun(_, _, _)
TimeDurationRun(acc, dur, i) ==
    IF acc.err # NoErr \/ i > Len(TimeFields) THEN acc
    ELSE TimeDurationRun(addNano(acc.val, dur[TimeFields[i]], TimeUnits[i]),
                         dur, i + 1)

\* "if d.Negative { nano = -nano }; return time.Duration(nano), nil"; the
\* result ret is still zero when an error has returned early
TimeDurationReturn(acc, negative) ==
    IF acc.err # NoErr THEN [val |-> Zero, err |-> acc.err]
    ELSE [val |-> IF negative THEN Neg64(acc.val) ELSE acc.val, err |-> NoErr]

TimeDuration(dur) ==
    TimeDurationReturn(TimeDurationRun([val |-> Zero, err |-> NoErr], dur, 1),
                       dur.Negative)

---------------------------------------------------------------------------
(* Text: a sequence of one-character strings.                              *)

DigitChars == <<"0", "1", "2", "3", "4", "5", "6", "7", "8", "9">>
IsDigit(c) == \E k \in 1..10 : DigitChars[k] = c
DigitVal(c) == (CHOOSE k \in 1..10 : DigitChars[k] = c) - 1

\* strconv.AppendUint(b, v, 10): the decimal digits of v, "0" for zero
AppendUint(b, v) ==
    LET n == NumDigits(v.mag)
    IN  IF ZIsZero(v) THEN b \o <<"0">>
        ELSE b \o [i \in 1..n |-> DigitChars[Dg(v.mag, n + 1 - i) + 1]]

\* strconv.AppendInt(b, x, 10): a "-" before the digits of a negative x
AppendInt(b, x) ==
    IF x.neg THEN AppendUint(b \o <<"-">>, ZNeg(x)) ELSE AppendUint(b, x)

\* The loop takes v%10 and then v /= 10, prec times: it reads the prec lowest
\* decimal digits of v, lowest first, and writes them from the first nonzero
\* one on; then the period.
appendFrac(b, v, prec) ==
    LET nz == {i \in 1..prec : Dg(v.mag, i) # 0}
        first == CHOOSE i \in nz : \A k \in nz : i <= k
    IN  IF nz = {} THEN b
        ELSE b \o <<".">>
               \o [k \in 1..(prec - first + 1) |->
                      DigitChars[Dg(v.mag, prec + 1 - k) + 1]]

\* AppendField without its "if d.<field> != 0": a zero field is written too
AppendFieldAlways(b, x, letter) == AppendInt(b, x) \o <<letter>>

\* "<integer><letter>" for a nonzero field, nothing for a zero one
AppendField(b, x, letter) ==
    IF ZIsZero(x) THEN b ELSE AppendInt(b, x) \o <<letter>>

\* "v = -v" for a negative d.Seconds and "v--" for a negative d.Nanoseconds
\* under a non-negative d.Seconds, on the uint64 v
SecondsValue(dur) ==
    IF ZLt(dur.Seconds, Zero) THEN NegU64(ToUint64(dur.Seconds))
    ELSE IF ZLt(dur.Nanoseconds, Zero) THEN DecU64(ToUint64(dur.Seconds))
    ELSE ToUint64(dur.Seconds)

\* "f = -f" or "f = uint64(int64(time.Second) + d.Nanoseconds)" for a negative
\* d.Nanoseconds, on the uint64 f
SecondsFraction(dur) ==
    IF ~ZLt(dur.Nanoseconds, Zero) THEN ToUint64(dur.Nanoseconds)
    ELSE IF ZLt(dur.Seconds, Zero) THEN NegU64(ToUint64(dur.Nanoseconds))
    ELSE ToUint64(Add64(Second, dur.Nanoseconds))

\* the S component (the body of "if d.Seconds != 0 || d.Nanoseconds != 0")
AppendSeconds(b, dur) ==
    appendFrac(AppendUint(IF ZLt(dur.Seconds, Zero) THEN b \o <<"-">> ELSE b,
                          SecondsValue(dur)),
               SecondsFraction(dur), 9) \o <<"S">>

AppendFormat(dur, b) ==
    LET b0 == (IF dur.Negative THEN b \o <<"-">> ELSE b) \o <<"P">>
        Y(buf)  == AppendField(buf, dur.Years, "Y")
        Mo(buf) == AppendField(buf, dur.Months, "M")
        W(buf)  == AppendField(buf, dur.Weeks, "W")
        D(buf)  == AppendField(buf, dur.Days, "D")
        T(buf)  == IF \/ ~ZIsZero(dur.Hours) \/ ~ZIsZero(dur.Minutes)
                      \/ ~ZIsZero(dur.Seconds) \/ ~ZIsZero(dur.Nanoseconds)
                   THEN buf \o <<"T">> ELSE buf
        H(buf)  == AppendField(buf, dur.Hours, "H")
        Mi(buf) == AppendField(buf, dur.Minutes, "M")
        S(buf)  == IF ~ZIsZero(dur.Seconds) \/ ~ZIsZero(dur.Nanoseconds)
                   THEN AppendSeconds(buf, dur) ELSE buf
        End(buf) == IF Len(buf) = Len(b0) THEN buf \o <<"0", "D">> ELSE buf
    IN  End(S(Mi(H(T(D(W(Mo(Y(b0)))))))))

String(dur) == AppendFormat(dur, << >>)

---------------------------------------------------------------------------
(* NewDuration.                                                            *)

\* the fields of the (negated) argument n: each "%=" leaves the rest of the
\* division before it
NewDurationFields(n, negative) ==
    Duration(Zero, Zero, Zero, Zero,
             Quo64(n, Hour),
             Quo64(ZRem(n, Hour), Minute),
             Quo64(ZRem(ZRem(n, Hour), Minute), Second),
             ZRem(ZRem(ZRem(n, Hour), Minute), Second),
             negative)

NewDuration(nanoseconds) ==
    NewDurationFields(IF ZLt(nanoseconds, Zero) THEN Neg64(nanoseconds)
                      ELSE nanoseconds,
                      ZLt(nanoseconds, Zero))

---------------------------------------------------------------------------
(* The scanner: leadingNegative, leadingInt, leadingFraction.              *)

leadingNegative(str) ==
    IF str = << >> THEN [x |-> FALSE, rem |-> str]
    ELSE IF str[1] = "-" \/ str[1] = "+"
    THEN [x |-> str[1] = "-", rem |-> Tail(str)]
    ELSE [x |-> FALSE, rem |-> str]

\* (1<<63-1)/10
MaxInt64Div10 == ZQuo(maxInt64, Ten)

\* "return 0, "", ErrOverflow"
leadingIntOverflow == [x |-> Zero, rem |-> << >>, err |-> ErrOverflow]

\* leadingInt's loop from index i (0-based) of str on, with x so far
RECURSIVE leadingIntLoop(_, _, _)
\* the turn of the loop after "x = x*10 + int64(c) - '0'" has made y
leadingIntTurn(str, i, y) ==
    IF ZLt(y, Zero) THEN leadingIntOverflow ELSE leadingIntLoop(str, i + 1, y)

leadingIntLoop(str, i, x) ==
    IF i >= Len(str) \/ ~IsDigit(str[i + 1])
    THEN [x |-> x, rem |-> SubSeq(str, i + 1, Len(str)), err |-> NoErr]
    ELSE IF ZGt(x, MaxInt64Div10) THEN leadingIntOverflow
    ELSE leadingIntTurn(str, i,
                        Add64(ZMul(x, Ten), FromInt(DigitVal(str[i + 1]))))

leadingInt(str) == leadingIntLoop(str, 0, Zero)

\* leadingFraction's loop from index i (0-based) of str on; scale is held
\* exactly (it is a power of ten below 10^20, which float64 represents exactly)
RECURSIVE leadingFractionLoop(_, _, _, _, _)
\* the turn of the loop after "y := x*10 + int64(c) - '0'"
leadingFractionTurn(str, i, x, scale, y) ==
    IF ZLt(y, Zero) THEN leadingFractionLoop(str, i + 1, x, scale, TRUE)
    ELSE leadingFractionLoop(str, i + 1, y, ZMul(scale, Ten), FALSE)

leadingFractionLoop(str, i, x, scale, overflow) ==
    IF i >= Len(str) \/ ~IsDigit(str[i + 1])
    THEN [x |-> x, scale |-> scale, rem |-> SubSeq(str, i + 1, Len(str))]
    ELSE IF overflow \/ ZGt(x, MaxInt64Div10)
    THEN leadingFractionLoop(str, i + 1, x, scale, TRUE)
    ELSE leadingFractionTurn(str, i, x, scale,
                             Add64(ZMul(x, Ten), FromInt(DigitVal(str[i + 1]))))

leadingFraction(str) == leadingFractionLoop(str, 0, Zero, One, FALSE)

---------------------------------------------------------------------------
(* ParseDuration.                                                          *)

\* int64(float64(f) * (float64(ratio) / scale)).  The texts of this model
\* carry a fraction only where the floating-point arithmetic is exact: scale
\* divides ratio, so float64(ratio)/scale is an integer, and |f| and the
\* product are below 2^53.  There the value is f*ratio/scale, and the
\* conversion to int64 truncates toward zero.
FractionToUnit(f, ratio, scale) ==
    IF ZIsZero(f) THEN Zero ELSE ZQuo(ZMul(f, ratio), scale)

\* the ratios of neighbouring units, as the switch writes them
UnitRatios ==
    [Years |-> ZQuo(Year, Month), Months |-> ZQuo(Month, Week),
     Weeks |-> ZQuo(Week, Day), Days |-> ZQuo(Day, Hour),
     Hours |-> ZQuo(Hour, Minute), Minutes |-> ZQuo(Minute, Second),
     Seconds |-> ZQuo(Second, Nanosecond)]

\* UnitCase with one switch for both segments: every unit letter but M is taken
\* on either side of the T
UnitCaseAnySegment(isAfterT, u) ==
    CASE u = "Y" -> [ok |-> TRUE, field |-> "Years", finer |-> "Months"]
      [] u = "M" /\ ~isAfterT -> [ok |-> TRUE, field |-> "Months", finer |-> "Weeks"]
      [] u = "W" -> [ok |-> TRUE, field |-> "Weeks", finer |-> "Days"]
      [] u = "D" -> [ok |-> TRUE, field |-> "Days", finer |-> "Hours"]
      [] u = "H" -> [ok |-> TRUE, field |-> "Hours", finer |-> "Minutes"]
      [] u = "M" /\ isAfterT -> [ok |-> TRUE, field |-> "Minutes", finer |-> "Seconds"]
      [] u = "S" -> [ok |-> TRUE, field |-> "Seconds", finer |-> "Nanoseconds"]
      [] OTHER   -> [ok |-> FALSE, field |-> "", finer |-> ""]

\* the field a unit letter adds to and the next finer field; none for a letter
\* that is not legal before / after the T
UnitCase(isAfterT, u) ==
    IF ~isAfterT
    THEN CASE u = "Y" -> [ok |-> TRUE, field |-> "Years", finer |-> "Months"]
           [] u = "M" -> [ok |-> TRUE, field |-> "Months", finer |-> "Weeks"]
           [] u = "W" -> [ok |-> TRUE, field |-> "Weeks", finer |-> "Days"]
           [] u = "D" -> [ok |-> TRUE, field |-> "Days", finer |-> "Hours"]
           [] OTHER   -> [ok |-> FALSE, field |-> "", finer |-> ""]
    ELSE CASE u = "H" -> [ok |-> TRUE, field |-> "Hours", finer |-> "Minutes"]
           [] u = "M" -> [ok |-> TRUE, field |-> "Minutes", finer |-> "Seconds"]
           [] u = "S" -> [ok |-> TRUE, field |-> "Seconds", finer |-> "Nanoseconds"]
           [] OTHER   -> [ok |-> FALSE, field |-> "", finer |-> ""]

\* "ret.<field> += v" and "ret.<finer> += int64(...)": plain int64 additions
AddToFields(r, uc, v, f, scale) ==
    [[r EXCEPT ![uc.field] = Add64(@, v)]
        EXCEPT ![uc.finer] =
            Add64(@, FractionToUnit(f, UnitRatios[uc.field], scale))]

\* A turn of ParseDuration's loop on a component (the input does not start
\* with T) gives the rest of the input, the result so far and the error.
\* Here from the switch on the unit letter (case uc) to the end of the turn.
ParseSwitch(uc, rest, v, f, scale, post, r, orig) ==
    IF ~uc.ok THEN [s |-> rest, ret |-> r, err |-> ErrInvalidDuration(orig)]
    ELSE [s |-> rest, ret |-> AddToFields(r, uc, v, f, scale),
          err |-> IF post /\ rest # << >> THEN ErrInvalidDuration(orig)
                  ELSE NoErr]

\* from "if !pre && !post" on, with the integer int and the fraction frac;
\* frac.rem is int.rem when there is no period, and otherwise what
\* leadingFraction leaves of the text after the period, so digits were
\* consumed after a period (post) iff frac.rem is shorter than that text
ParseUnit(sign, int, frac, isAfterT, r, orig) ==
    LET pre  == Len(sign.rem) # Len(int.rem)
        post == Len(int.rem) - 1 > Len(frac.rem)
    IN  IF (~pre /\ ~post) \/ frac.rem = << >>
        THEN [s |-> frac.rem, ret |-> r, err |-> ErrInvalidDuration(orig)]
        ELSE ParseSwitch(UnitCase(isAfterT, frac.rem[1]), Tail(frac.rem),
                         IF sign.x THEN Neg64(int.x) ELSE int.x,
                         IF sign.x THEN Neg64(frac.x) ELSE frac.x,
                         frac.scale, post, r, orig)

\* from the error check after leadingInt on: the optional period and fraction
ParseFraction(sign, int, isAfterT, r, orig) ==
    IF int.err # NoErr THEN [s |-> int.rem, ret |-> r, err |-> int.err]
    ELSE ParseUnit(sign, int,
                   IF int.rem # << >> /\ int.rem[1] = "."
                   THEN leadingFraction(Tail(int.rem))
                   ELSE [x |-> Zero, scale |-> One, rem |-> int.rem],
                   isAfterT, r, orig)

ParseInteger(sign, isAfterT, r, orig) ==
    ParseFraction(sign, leadingInt(sign.rem), isAfterT, r, orig)

ParseComponentStep(str, isAfterT, r, orig) ==
    ParseInteger(leadingNegative(str), isAfterT, r, orig)

---------------------------------------------------------------------------
(* The inputs.                                                             *)

\* the most components a generated input text is made of
MaxComps == 3

\* the components (and fragments) the generated input texts are made of
Items ==
    { <<"T">>, <<"1", "Y">>, <<"2", "M">>, <<"3", "D">>, <<"4", "H">>,
      <<"5", "S">>, <<"7", "X">> }

RECURSIVE CompSeqs(_)
CompSeqs(n) ==
    IF n = 0 THEN {<< >>}
    ELSE {c \o i : c \in CompSeqs(n - 1), i \in Items \cup {<< >>}}

\* the decimal digits of 2^63 - 1 and of 2^63
MaxDigits == AppendUint(<< >>, maxInt64)
OverDigits == AppendUint(<< >>, Two63)

\* texts chosen for a case each: no P where it belongs; a week, component
\* signs, fractions, missing digits or unit; the largest integer, a digit run
\* beyond it, and fields whose sum leaves the int64 range
Chosen ==
    { << >>, <<"-">>, <<"1", "Y">>, <<"+", "T">>, <<"p", "1", "Y">>,
      <<"P", "1", "W">>, <<"P", "-", "1", "Y">>, <<"-", "P", "-", "1", "D">>,
      <<"P", "T", "-", "6", ".", "5", "S">>, <<"P", "T", "0", ".", "5", "S">>,
      <<"P", "T", ".", "2", "5", "S">>, <<"P", "T", "1", ".", "5", "H">>,
      <<"P", "T", "1", ".", "5", "H", "1", "M">>, <<"P", "1", ".", "Y">>,
      <<"P", ".", "Y">>, <<"P", "-", "Y">>, <<"P", "8">>, <<"P", "1", "T">>,
      <<"P">> \o MaxDigits \o <<"Y">>,
      <<"P">> \o OverDigits \o <<"D">>,
      <<"P", "1">> \o MaxDigits \o <<"X">>,
      <<"P">> \o MaxDigits \o <<"Y", "1", "Y">>,
      <<"P", "-">> \o MaxDigits \o <<"D", "-", "2", "D">>,
      <<"P">> \o MaxDigits \o <<"Y", "7", "X">> }

\* the texts ParseDuration is called on
Texts ==
    {sg \o <<"P">> \o c : sg \in {<< >>, <<"-">>, <<"+">>}, c \in CompSeqs(MaxComps)}
    \cup Chosen

\* 500000000
HalfSecond == ZMul(FromInt(5), Pow10(8))

\* Years, Months, Weeks, Days; Hours, Minutes; Seconds; Nanoseconds of the
\* Durations String and TimeDuration are called on
DateParts == {<<0, 0, 0, 0>>, <<1, 0, 0, 0>>, <<0, 2, 0, 3>>, <<-1, 2, 1, 3>>}
TimeParts == {<<0, 0>>, <<4, 0>>, <<-4, 5>>}
SecondsParts == {FromInt(-1), Zero, One, FromInt(59)}
NanosecondsParts == {ZNeg(HalfSecond), Zero, One, HalfSecond, FromInt(-120)}

SmallDurations ==
    { Duration(FromInt(dp[1]), FromInt(dp[2]), FromInt(dp[3]), FromInt(dp[4]),
               FromInt(tp[1]), FromInt(tp[2]), sec, ns, negative) :
        dp \in DateParts, tp \in TimeParts, sec \in SecondsParts,
        ns \in NanosecondsParts, negative \in BOOLEAN }

\* Durations at the edges of TimeDuration's range: 292 years fit in an int64
\* of nanoseconds and 293 do not; -3507 months fit and -3508 do not
LargeDurations ==
    { [ZeroDuration EXCEPT !.Years = FromInt(292)],
      [ZeroDuration EXCEPT !.Years = FromInt(293)],
      [ZeroDuration EXCEPT !.Years = FromInt(-293), !.Negative = TRUE],
      [ZeroDuration EXCEPT !.Years = FromInt(292), !.Months = FromInt(4)],
      [ZeroDuration EXCEPT !.Years = One, !.Months = FromInt(-3507)],
      [ZeroDuration EXCEPT !.Months = FromInt(-3508)],
      [ZeroDuration EXCEPT !.Weeks = FromInt(15250), !.Days = FromInt(1)],
      [ZeroDuration EXCEPT !.Hours = FromInt(2562047), !.Minutes = FromInt(48)],
      [ZeroDuration EXCEPT !.Seconds = One, !.Nanoseconds = maxInt64],
      [ZeroDuration EXCEPT !.Seconds = FromInt(-1), !.Nanoseconds = minInt64],
      [ZeroDuration EXCEPT !.Nanoseconds = maxInt64, !.Negative = TRUE],
      [ZeroDuration EXCEPT !.Nanoseconds = minInt64],
      [ZeroDuration EXCEPT !.Nanoseconds = minInt64, !.Negative = TRUE],
      [ZeroDuration EXCEPT !.Seconds = minInt64],
      [ZeroDuration EXCEPT !.Years = maxInt64, !.Negative = TRUE] }

Durations == SmallDurations \cup LargeDurations

\* the arguments NewDuration is called on: zero, one hour and a half, minus
\* ninety seconds, a mix of all four fields, and the ends of the int64 range
NanosecondCounts ==
    { Zero, One, FromInt(-1), ZMul(FromInt(5400), Second),
      ZMul(FromInt(-90), Second), ZAdd(ZMul(FromInt(3661), Second), One),
      ZNeg(ZAdd(ZMul(FromInt(86399), Second), HalfSecond)),
      maxInt64, ZNeg(maxInt64), minInt64 }

---------------------------------------------------------------------------
(* The operations.  pc is "text" when a text waits to be parsed, "loop" at   *)
(* the head of ParseDuration's loop, "parsed" when ParseDuration has         *)
(* returned; "nanoseconds" when an argument of NewDuration waits; "value"    *)
(* when a Duration waits for String or TimeDuration; "converted" when        *)
(* TimeDuration has returned.                                                *)

\* ParseDuration up to its loop: the leading sign and the P
ParseBegin ==
    /\ pc = "text"
    /\ \E sign \in {leadingNegative(text)} :
          /\ ret' = [ZeroDuration EXCEPT !.Negative = sign.x]
          /\ IF sign.rem = << >> \/ sign.rem[1] # "P"
             THEN /\ err' = ErrInvalidDuration(text)
                  /\ s' = sign.rem
                  /\ pc' = "parsed"
             ELSE /\ err' = NoErr
                  /\ s' = Tail(sign.rem)
                  /\ pc' = "loop"
    /\ afterT' = FALSE
    /\ UNCHANGED <<call, nanos, d, text, nano>>

\* ParseT with "afterT = !afterT" for "afterT = true"
ParseTToggles ==
    /\ pc = "loop"
    /\ s # << >>
    /\ s[1] = "T"
    /\ s' = Tail(s)
    /\ afterT' = ~afterT
    /\ UNCHANGED <<pc, call, nanos, d, text, ret, err, nano>>

\* a turn of the loop that consumes the time designator
ParseT ==
    /\ pc = "loop"
    /\ s # << >>
    /\ s[1] = "T"
    /\ s' = Tail(s)
    /\ afterT' = TRUE
    /\ UNCHANGED <<pc, call, nanos, d, text, ret, err, nano>>

\* a turn of the loop that consumes a component, or returns with an error
ParseComponent ==
    /\ pc = "loop"
    /\ s # << >>
    /\ s[1] # "T"
    /\ \E r \in {ParseComponentStep(s, afterT, ret, text)} :
          /\ s' = r.s
          /\ ret' = r.ret
          /\ err' = r.err
          /\ pc' = IF r.err = NoErr THEN "loop" ELSE "parsed"
    /\ UNCHANGED <<call, nanos, d, text, afterT, nano>>

\* the loop ends with the input: ParseDuration returns ret and a nil error
ParseReturn ==
    /\ pc = "loop"
    /\ s = << >>
    /\ pc' = "parsed"
    /\ UNCHANGED <<call, nanos, d, text, s, afterT, ret, err, nano>>

\* NewDuration(nanos); the Duration is then there to be used
CallNewDuration ==
    /\ pc = "nanoseconds"
    /\ d' = NewDuration(nanos)
    /\ pc' = "value"
    /\ UNCHANGED <<call, nanos, text, s, afterT, ret, err, nano>>

\* d.String(); the text is then there to be parsed
CallString ==
    /\ pc = "value"
    /\ text' = String(d)
    /\ pc' = "text"
    /\ UNCHANGED <<call, nanos, d, s, afterT, ret, err, nano>>

\* d.TimeDuration()
CallTimeDuration ==
    /\ pc = "value"
    /\ \E r \in {TimeDuration(d)} : nano' = r.val /\ err' = r.err
    /\ pc' = "converted"
    /\ UNCHANGED <<call, nanos, d, text, s, afterT, ret>>

\* The client calls ParseDuration on a text, or String or TimeDuration on a
\* Duration, or NewDuration on a count of nanoseconds.
Init ==
    /\ call \in {"ParseDuration", "String", "NewDuration"}
    /\ pc = CASE call = "ParseDuration" -> "text"
              [] call = "String" -> "value"
              [] call = "NewDuration" -> "nanoseconds"
    /\ text \in IF call = "ParseDuration" THEN Texts ELSE {<< >>}
    /\ d \in IF call = "String" THEN Durations ELSE {ZeroDuration}
    /\ nanos \in IF call = "NewDuration" THEN NanosecondCounts ELSE {Zero}
    /\ s = << >> /\ afterT = FALSE /\ ret = ZeroDuration /\ err = NoErr
    /\ nano = Zero

Next ==
    \/ ParseBegin \/ ParseT \/ ParseComponent \/ ParseReturn
    \/ CallNewDuration \/ CallString \/ CallTimeDuration

Spec == Init /\ [][Next]_vars

---------------------------------------------------------------------------
(* What the properties below read off a text or a Duration on their own,   *)
(* without the scanner, the parser or the formatter.                       *)

\* the eight magnitude fields of a Duration
FieldNames ==
    {"Years", "Months", "Weeks", "Days", "Hours", "Minutes", "Seconds",
     "Nanoseconds"}

\* every field of dur is below 10^9 in magnitude
SmallFields(dur) == \A f \in FieldNames : MagLt(dur[f].mag, Second.mag)

\* no field of dur is negative
NonNegativeFields(dur) == \A f \in FieldNames : ~dur[f].neg

\* the number of digits txt has in a row from index i on
DigitRun(txt, i) ==
    Cardinality({k \in i..Len(txt) : \A j \in i..k : IsDigit(txt[j])})

\* the number that the n digits of txt from index i on write, however large
RunValue(txt, i, n) ==
    Z(FALSE, MagLit([k \in 1..n |-> DigitVal(txt[i + k - 1])]))

\* a component at the head of txt: its sign, the numbers its digit runs before
\* and after the period write, how many digits they have, and its unit letter
\* ("" where the text ends before one)
Component(txt) ==
    LET sg == IF txt # << >> /\ (txt[1] = "-" \/ txt[1] = "+") THEN 1 ELSE 0
        n == DigitRun(txt, sg + 1)
        dot == sg + n + 1 <= Len(txt) /\ txt[sg + n + 1] = "."
        m == IF dot THEN DigitRun(txt, sg + n + 2) ELSE 0
        u == sg + n + (IF dot THEN m + 1 ELSE 0) + 1
    IN  [neg |-> sg = 1 /\ txt[1] = "-",
         int |-> RunValue(txt, sg + 1, n),
         frac |-> RunValue(txt, sg + n + 2, m),
         fracDigits |-> m,
         digits |-> n + m,
         unit |-> IF u <= Len(txt) THEN txt[u] ELSE "",
         rest |-> SubSeq(txt, u + 1, Len(txt))]

\* the unit letters of the two segments, and the field each stands for
LegalUnits(isAfterT) ==
    IF isAfterT THEN {"H", "M", "S"} ELSE {"Y", "M", "W", "D"}

UnitField(isAfterT, u) ==
    CASE u = "Y" -> "Years"
      [] u = "M" -> IF isAfterT THEN "Minutes" ELSE "Months"
      [] u = "W" -> "Weeks"
      [] u = "D" -> "Days"
      [] u = "H" -> "Hours"
      [] u = "S" -> "Seconds"

FinerField(f) ==
    CASE f = "Years" -> "Months"
      [] f = "Months" -> "Weeks"
      [] f = "Weeks" -> "Days"
      [] f = "Days" -> "Hours"
      [] f = "Hours" -> "Minutes"
      [] f = "Minutes" -> "Seconds"
      [] f = "Seconds" -> "Nanoseconds"

\* the positions of the unit letters of txt: what follows the first P and is
\* no digit, sign, period or T
UnitPositions(txt) ==
    {i \in 1..Len(txt) :
        /\ \E j \in 1..(i - 1) : txt[j] = "P"
        /\ ~IsDigit(txt[i])
        /\ txt[i] \notin {"-", "+", ".", "T"}}

\* position i of txt lies after a time designator
AfterDesignator(txt, i) == \E j \in 1..(i - 1) : txt[j] = "T"

\* every unit letter of txt is one of its segment's
InSegment(txt) ==
    \A i \in UnitPositions(txt) : txt[i] \in LegalUnits(AfterDesignator(txt, i))

\* the place of a unit in P[n]Y[n]M[n]W[n]DT[n]H[n]M[n]S
UnitRank(isAfterT, u) ==
    CASE ~isAfterT /\ u = "Y" -> 1
      [] ~isAfterT /\ u = "M" -> 2
      [] ~isAfterT /\ u = "W" -> 3
      [] ~isAfterT /\ u = "D" -> 4
      [] isAfterT /\ u = "H" -> 5
      [] isAfterT /\ u = "M" -> 6
      [] isAfterT /\ u = "S" -> 7
      [] OTHER -> 0

\* the units of txt come in that order, each at most once
InOrder(txt) ==
    /\ InSegment(txt)
    /\ \A i, j \in UnitPositions(txt) :
          i < j => UnitRank(AfterDesignator(txt, i), txt[i])
                   < UnitRank(AfterDesignator(txt, j), txt[j])

\* what txt has after its last character among cs
AfterLast(txt, cs) ==
    SubSeq(txt, Max({0} \cup {i \in 1..Len(txt) : txt[i] \in cs}) + 1, Len(txt))

\* the S component of total nanoseconds: the signed decimal of total / 10^9,
\* at most nine digits after the period, none of them a trailing zero, and no
\* period without them
SecondsDecimal(total) ==
    LET part == ZRem(Z(FALSE, total.mag), Second)
        keep == Max({0} \cup {k \in 1..9 : Dg(part.mag, 10 - k) # 0})
    IN  (IF total.neg THEN <<"-">> ELSE << >>)
        \o AppendUint(<< >>, ZQuo(Z(FALSE, total.mag), Second))
        \o (IF keep = 0 THEN << >>
            ELSE <<".">> \o [k \in 1..keep |-> DigitChars[Dg(part.mag, 10 - k) + 1]])
        \o <<"S">>

\* the products field * unit of TimeDuration, their running sums and the
\* total with the sign, all as mathematical integers
ExactProduct(dur, i) == ZMul(dur[TimeFields[i]], TimeUnits[i])

RECURSIVE ExactSum(_, _)
ExactSum(dur, i) ==
    IF i = 0 THEN Zero ELSE ZAdd(ExactSum(dur, i - 1), ExactProduct(dur, i))

ExactTotal(dur) ==
    IF dur.Negative THEN ZNeg(ExactSum(dur, Len(TimeFields)))
    ELSE ExactSum(dur, Len(TimeFields))

ExactFits(dur) ==
    /\ \A i \in 1..Len(TimeFields) :
          InInt64(ExactProduct(dur, i)) /\ InInt64(ExactSum(dur, i))
    /\ InInt64(ExactTotal(dur))

\* the canonical shape of the text of dur: sign, P, the nonzero date fields, T
\* and the nonzero hours and minutes where a time field is nonzero; then the S
\* component where seconds or nanoseconds are nonzero, "0D" where every field
\* is zero, and nothing else
CanonicalText(dur, txt) ==
    LET comp(x, letter) ==
            IF ZIsZero(x) THEN << >> ELSE AppendInt(<< >>, x) \o <<letter>>
        hasS == ~ZIsZero(dur.Seconds) \/ ~ZIsZero(dur.Nanoseconds)
        hasT == hasS \/ ~ZIsZero(dur.Hours) \/ ~ZIsZero(dur.Minutes)
        head == (IF dur.Negative THEN <<"-">> ELSE << >>) \o <<"P">>
                \o comp(dur.Years, "Y") \o comp(dur.Months, "M")
                \o comp(dur.Weeks, "W") \o comp(dur.Days, "D")
                \o (IF hasT THEN <<"T">> ELSE << >>)
                \o comp(dur.Hours, "H") \o comp(dur.Minutes, "M")
        tail == SubSeq(txt, Len(head) + 1, Len(txt))
    IN  /\ Len(txt) >= Len(head)
        /\ SubSeq(txt, 1, Len(head)) = head
        /\ IF hasS
           THEN /\ tail # << >>
                /\ tail[Len(tail)] = "S"
                /\ \A i \in 1..(Len(tail) - 1) :
                      IsDigit(tail[i]) \/ tail[i] = "-" \/ tail[i] = "."
           ELSE IF \A f \in FieldNames : ZIsZero(dur[f])
           THEN tail = <<"0", "D">>
           ELSE tail = << >>

---------------------------------------------------------------------------
(* The properties.                                                         *)

\* C1: round trip.  For every Duration d with small fields, Seconds and
\* Nanoseconds of different signs included, ParseDuration(d.String())
\* succeeds and returns a Duration equal to d field for field.
RoundTrip ==
    (call = "String" /\ pc = "parsed" /\ SmallFields(d))
        => (err = NoErr /\ ret = d)

\* C2: where Seconds or Nanoseconds is nonzero, the S component of
\* d.String() is the one signed decimal equal to Seconds + Nanoseconds/10^9
\* (Seconds = 0, Nanoseconds = -500000000 gives "-0.5S"), with at most nine
\* digits after the period, trailing zeros stripped, and no period before a
\* zero fraction.
SecondsComponent ==
    (call = "String" /\ pc = "text" /\ SmallFields(d)
     /\ (~ZIsZero(d.Seconds) \/ ~ZIsZero(d.Nanoseconds)))
        => AfterLast(text, {"T", "H", "M"})
           = SecondsDecimal(ZAdd(ZMul(d.Seconds, Second), d.Nanoseconds))

\* C3: parsing is all or nothing.  Whenever ParseDuration returns an error,
\* the Duration it returns with it is the all-zero, non-negative one.
AllOrNothing ==
    (pc = "parsed" /\ err # NoErr) => ret = ZeroDuration

\* a turn of the loop on a component keeps every integer exact or fails
NoWrapTurn ==
    (pc = "loop" /\ s # << >> /\ s[1] # "T") =>
        LET c == Component(s)
            field == UnitField(afterT, c.unit)
            sum == ZAdd(ret[field], IF c.neg THEN ZNeg(c.int) ELSE c.int)
            fsum == ZAdd(ret[FinerField(field)],
                         ZQuo(ZMul(IF c.neg THEN ZNeg(c.frac) ELSE c.frac,
                                   UnitRatios[field]),
                              Pow10(c.fracDigits)))
        IN  IF ZGt(c.int, maxInt64) THEN err' = ErrOverflow
            ELSE (c.digits > 0 /\ c.unit \in LegalUnits(afterT)) =>
                 IF InInt64(sum) /\ InInt64(fsum)
                 THEN /\ err' # ErrOverflow
                      /\ ret'[field] = sum
                      /\ ret'[FinerField(field)] = fsum
                 ELSE err' = ErrOverflow

\* C4: ParseDuration never returns a wrapped integer.  A digit run above
\* 2^63-1 fails with ErrOverflow; a component whose integer part (or whose
\* converted fraction) added to its field leaves the int64 range fails with
\* ErrOverflow; otherwise the field holds the exact mathematical sum.
NoWrappedInteger == [][NoWrapTurn]_vars

\* C5: TimeDuration returns ErrOverflow exactly when a product field * unit,
\* a running sum of the products, or the total with the sign lies outside
\* the int64 range, and the exact total otherwise.
ExactTimeDuration ==
    pc = "converted" =>
        IF ExactFits(d) THEN err = NoErr /\ nano = ExactTotal(d)
        ELSE err = ErrOverflow

\* C6 as it was stated: an input is accepted only if its units come in the
\* order Y, M, W, D before the time designator and H, M, S after it, each at
\* most once.
UnitOrderEnforced ==
    (pc = "parsed" /\ err = NoErr) => InOrder(text)

\* C6: an input is accepted only if every unit letter before its first time
\* designator is one of Y, M, W, D and every unit letter after it is one of
\* H, M, S; among the units of a segment no order is asked for, and none is
\* barred from coming twice.
UnitSegmentsEnforced ==
    (pc = "parsed" /\ err = NoErr) => InSegment(text)

\* C6: "P3D1Y", days before years, has been accepted, as one year and three
\* days.
OutOfOrderAccepted ==
    /\ pc = "parsed"
    /\ err = NoErr
    /\ text = <<"P", "3", "D", "1", "Y">>
    /\ ret = [ZeroDuration EXCEPT !.Years = One, !.Days = FromInt(3)]

\* C7: the text of every Duration has the canonical shape, and is never the
\* bare "P" (the zero Duration gives "P0D"); ParseDuration("P") and
\* ParseDuration("PT") return the all-zero, non-negative Duration.
CanonicalShape ==
    /\ (call # "ParseDuration" /\ pc = "text") =>
          /\ CanonicalText(d, text)
          /\ text # <<"P">> /\ text # <<"-", "P">>
          /\ d = ZeroDuration => text = <<"P", "0", "D">>
    /\ (call = "ParseDuration" /\ pc = "parsed"
        /\ (text = <<"P">> \/ text = <<"P", "T">>))
          => (err = NoErr /\ ret = ZeroDuration)

\* C7: a negative Duration of a year and four hours has been written, as
\* "-P1YT4H".
CanonicalShapeWritten ==
    /\ call = "String"
    /\ pc = "text"
    /\ d = [ZeroDuration EXCEPT !.Years = One, !.Hours = FromInt(4),
                                !.Negative = TRUE]
    /\ text = <<"-", "P", "1", "Y", "T", "4", "H">>

\* C8: for every int64 n, the least included, NewDuration(n) has no date
\* field, Negative = (n < 0), Hours >= 0, Minutes and Seconds in 0..59,
\* Nanoseconds in 0..10^9-1, and the fields add up to |n|; its text is "P0D"
\* for n = 0 and otherwise has a T, no Y, M (of months), W or D component,
\* and no "-" but one at its head for n < 0.
FixedLengthSpan ==
    /\ (call = "NewDuration" /\ pc = "value") =>
          /\ ZIsZero(d.Years) /\ ZIsZero(d.Months)
          /\ ZIsZero(d.Weeks) /\ ZIsZero(d.Days)
          /\ d.Negative = ZLt(nanos, Zero)
          /\ ZLe(Zero, d.Hours)
          /\ ZLe(Zero, d.Minutes) /\ ZLt(d.Minutes, FromInt(60))
          /\ ZLe(Zero, d.Seconds) /\ ZLt(d.Seconds, FromInt(60))
          /\ ZLe(Zero, d.Nanoseconds) /\ ZLt(d.Nanoseconds, Second)
          /\ ZAdd(ZAdd(ZMul(d.Hours, Hour), ZMul(d.Minutes, Minute)),
                  ZAdd(ZMul(d.Seconds, Second), d.Nanoseconds))
             = Z(FALSE, nanos.mag)
    /\ (call = "NewDuration" /\ pc = "text") =>
          IF ZIsZero(nanos) THEN text = <<"P", "0", "D">>
          ELSE /\ \E i \in 1..Len(text) : text[i] = "T"
               /\ \A i \in 1..Len(text) :
                     /\ text[i] \notin {"Y", "W", "D"}
                     /\ text[i] = "M" => AfterDesignator(text, i)
                     /\ text[i] = "-" <=> (i = 1 /\ ZLt(nanos, Zero))

\* C9: every Duration that ParseDuration returns without an error, and every
\* Duration that NewDuration returns, has its eight magnitude fields
\* non-negative.
FieldsNonNegative ==
    /\ (pc = "parsed" /\ err = NoErr) => NonNegativeFields(ret)
    /\ (call = "NewDuration" /\ pc = "value") => NonNegativeFields(d)

\* a step of the parser keeps to the two states and the seven legal pairs
ParserTurn ==
    /\ pc = "text" => ~afterT'
    /\ (pc = "loop" /\ afterT) => afterT'
    /\ (pc = "loop" /\ s # << >> /\ s[1] = "T")
          => (afterT' /\ pc' = "loop" /\ s' = Tail(s))
    /\ (pc = "loop" /\ s # << >> /\ s[1] # "T") =>
          /\ afterT' = afterT
          /\ pc' = "loop" =>
                /\ Component(s).unit \in LegalUnits(afterT)
                /\ s' = Component(s).rest
          /\ (/\ Component(s).digits > 0
              /\ ZLe(Component(s).int, maxInt64)
              /\ Component(s).unit # ""
              /\ Component(s).unit \notin LegalUnits(afterT))
                => (pc' = "parsed" /\ err' = ErrInvalidDuration(text))

\* C10: the parse loop starts before the time designator, is after it from
\* the first T on and for the rest of the parse, further Ts included; a
\* component is accepted only for the seven legal pairs of state and letter
\* (Y, M, W, D before; H, M, S after), and any other letter, or a letter in
\* the wrong state, ends the parse with the ErrInvalidDuration whose String
\* is the original text, sign included.
ParserStateMachine == [][ParserTurn]_vars

\* C10: "-PT1Y", a year after the time designator, has ended the parse with
\* the ErrInvalidDuration of the whole text.
WrongStateRejected ==
    /\ pc = "parsed"
    /\ text = <<"-", "P", "T", "1", "Y">>
    /\ afterT
    /\ err = ErrInvalidDuration(<<"-", "P", "T", "1", "Y">>)

=============================================================================
